---------------------------- MODULE Spec2Model ----------------------------
(***************************************************************************)
(* Model of the pi-security-camera server: the credential hasher           *)
(* (app/core/security/hashing.py), the token codec (app/core/auth/jwt.py)  *)
(* and the session manager (app/services/auth.py, app/api/routes/auth.py)  *)
(* over the users and refresh_tokens tables (app/db/db_models.py); the     *)
(* subscription reconciler (app/crud/camera_subscription.py,               *)
(* app/services/camera_subscription.py) and the access policy of the       *)
(* routes (app/api/routes) over the cameras, camera_subscriptions and      *)
(* videos tables; the user lifecycle (app/services/user.py) and the video  *)
(* upload (app/api/routes/videos.py, app/services/video.py).               *)
(*                                                                         *)
(* Strings are sequences of one-character strings.  Datetimes are integer  *)
(* instants counted in ticks of 1/TicksPerSecond second and are compared   *)
(* as instants; the settings are taken as loaded.  The modules are taken   *)
(* as importable: app/crud reads the tables of app/db_models.py, and the   *)
(* camera service the routes call is the one of app/crud/camera.py.  The   *)
(* host address of a camera is written as a number.                        *)
(***************************************************************************)
EXTENDS Integers, Sequences, FiniteSets, TLC

VARIABLES
    users,           \* rows of table "users"
    refresh_tokens,  \* rows of table "refresh_tokens"
    next_user_id,    \* next value of the users.id primary key
    next_token_id,   \* next value of the refresh_tokens.id primary key
    now,             \* datetime.now(timezone.utc), in ticks
    signed,          \* every JWT string the server has signed and handed out
    revoked,         \* history: refresh-token strings whose row was deleted
    rotated,         \* history: ids of the rows a successful refresh looked up
    rotated_again,   \* history: those ids a later refresh succeeded on again
    req,             \* in-flight /auth/refresh requests, one per worker
    last,            \* the response of the handler that completed last
    hashing,         \* the credential hasher's call under test
    orphaned,        \* history: signed JWTs whose subject's row was deleted
    cameras,               \* rows of table "cameras"
    camera_subscriptions,  \* rows of table "camera_subscriptions"
    videos,                \* rows of table "videos"
    db_type                \* DB_TYPE, the storage engine the server runs on

\* the tables of the camera catalogue and the engine that holds them
catalogue == <<cameras, camera_subscriptions, videos, db_type>>

vars == <<users, refresh_tokens, next_user_id, next_token_id, now, signed,
          revoked, rotated, rotated_again, req, last, hashing, cameras,
          camera_subscriptions, videos, db_type, orphaned>>

-----------------------------------------------------------------------------
(* Bounds of the model *)

MaxTicks == 2          \* clock ticks taken one at a time
MaxTokenRows == 3      \* refresh_tokens rows ever inserted
NumWorkers == 2        \* /auth/refresh requests, which may overlap
MaxPasswordLen == 1    \* hasher inputs: password length
MaxSaltLen == 9        \* hasher inputs: salt length
MaxStoredLen == 3      \* hasher inputs: length of an arbitrary stored string

TicksPerSecond == 1     \* clock resolution: ticks in one second

(* Program constants *)

ACCESS_TOKEN_EXPIRE_MINUTES == 30
REFRESH_TOKEN_EXPIRE_DAYS == 30
ENABLE_FIRST_USER_ADMIN == TRUE
MinSaltLen == 8

-----------------------------------------------------------------------------
(* Strings *)

Chars == {"a", ":"}

\* all strings over alphabet of length lo..hi
StringsOver(alphabet, lo, hi) ==
    UNION {[1..n -> alphabet] : n \in lo..hi}

\* Python None, for a parameter typed `str | None`
None == <<"None">>

\* f"{x}" of a `str | None`
Format(x) == IF x = None THEN <<"N", "o", "n", "e">> ELSE x

\* the index of the first sep in s, 0 when there is none
RECURSIVE Find(_, _, _)
Find(s, sep, i) ==
    IF i > Len(s) THEN 0
    ELSE IF s[i] = sep THEN i
    ELSE Find(s, sep, i + 1)

\* str.split(sep): the list of the parts of s between separators
RECURSIVE Split(_, _)
Split(s, sep) ==
    LET i == Find(s, sep, 1)
    IN  IF i = 0 THEN <<s>>
        ELSE <<SubSeq(s, 1, i - 1)>> \o Split(SubSeq(s, i + 1, Len(s)), sep)

-----------------------------------------------------------------------------
(* Credential hasher: app/core/security/hashing.py over argon2's            *)
(* PasswordHasher.  An outcome is [err, val]: err names the exception       *)
(* raised, "none" when the call returns val.                                *)

Returned(v) == [err |-> "none", val |-> v]
Raised(e) == [err |-> e, val |-> <<>>]

\* base64 as argon2 writes salt and digest: its alphabet has no ':' and no
\* '$' (one-to-one on the characters the model uses)
B64Char(c) == IF c = ":" THEN "6" ELSE IF c = "$" THEN "4" ELSE c
B64(s) == [i \in 1..Len(s) |-> B64Char(s[i])]

\* the salts os.urandom can hand to PasswordHasher.hash when it gets none
RandomSalts == {[i \in 1..MinSaltLen |-> "a"], [i \in 1..MinSaltLen |-> ":"]}

\* the argon2 digest of a password under an encoded salt: one-way, and
\* different for different passwords under the same salt
Digest(password, salt64) == salt64 \o <<"+">> \o B64(password)

\* the encoded hash string "$argon2id$...$<salt>$<digest>"; the leading '$'
\* stands for the algorithm and parameter fields
EncodedHash(password, salt) ==
    <<"$">> \o B64(salt) \o <<"$">> \o Digest(password, B64(salt))

\* PasswordHasher.hash(password, salt=encoded_salt)
HasherHash(password, encoded_salt, rnd) ==
    LET salt == IF encoded_salt = None THEN rnd ELSE encoded_salt
    IN  IF Len(salt) < MinSaltLen THEN Raised("HashingError")
        ELSE Returned(EncodedHash(password, salt))

\* PasswordHasher.verify(hash, password): "ok" or the exception raised
HasherVerify(hash, password) ==
    LET fields == Split(hash, "$")
    IN  IF \/ Len(fields) # 3
           \/ fields[1] # <<>>
           \/ Len(fields[2]) < MinSaltLen
           \/ \E i \in 1..Len(hash) : hash[i] = ":"
        THEN "InvalidHashError"
        ELSE IF Digest(password, fields[2]) = fields[3] THEN "ok"
        ELSE "VerifyMismatchError"

generate_hashed_password(password, salt, rnd) ==
    LET encoded_salt == IF salt # None /\ salt # <<>> THEN salt ELSE None
        hashed_password == HasherHash(password, encoded_salt, rnd)
    IN  IF hashed_password.err # "none" THEN hashed_password
        ELSE Returned(Format(salt) \o <<":">> \o hashed_password.val)

\* "True", "False", or the exception that escapes the function
verify_password(plain_password, hashed_password) ==
    LET parts == Split(hashed_password, ":")
    IN  IF Len(parts) < 2 THEN "IndexError"
        ELSE LET hash_without_salt == parts[2]
             IN  IF HasherVerify(hash_without_salt, plain_password) = "ok"
                 THEN "True"
                 ELSE "False"

-----------------------------------------------------------------------------
(* Clock and token codec: app/core/auth/jwt.py over jose.jwt *)

AccessLifetime == ACCESS_TOKEN_EXPIRE_MINUTES * 60 * TicksPerSecond
RefreshLifetime == REFRESH_TOKEN_EXPIRE_DAYS * 86400 * TicksPerSecond

\* an instant at which every token issued during the ticks has expired
Later == MaxTicks + RefreshLifetime + 1

\* jose writes a datetime claim as whole seconds since the epoch
Timestamp(t) == t \div TicksPerSecond

\* a datetime read back from a whole-seconds claim
FromTimestamp(sec) == sec * TicksPerSecond

\* the JWT of a payload {sub, exp, iat}: with one secret and one algorithm
\* the signed string is a function of the three claims as jose writes them
encode_token(sub, exp, iat) == <<sub, Timestamp(exp), Timestamp(iat)>>

\* a string no call of encode_token returned (its signature does not verify)
Forged == <<0, 0, 0>>

\* jwt.decode, then TokenPayload(...)
decode_token(token, t) ==
    IF token \notin signed THEN Raised("JWTError")
    ELSE IF token[2] < Timestamp(t) THEN Raised("ExpiredSignatureError")
    ELSE Returned([sub |-> token[1], exp |-> FromTimestamp(token[2]),
                   iat |-> FromTimestamp(token[3])])

\* app/api/auth.py
create_access_token(sub, expires_delta, t) ==
    encode_token(sub, t + expires_delta, t)

-----------------------------------------------------------------------------
(* Tables *)

NoUser == [id |-> 0, email |-> "", password_hash |-> <<>>, is_admin |-> FALSE]

NoRow == [id |-> 0, token |-> <<>>, user_id |-> 0, expires_at |-> 0,
          issued_at |-> 0, login_expires_at |-> 0]

get_user_by_id(user_id) ==
    IF \E u \in users : u.id = user_id
    THEN CHOOSE u \in users : u.id = user_id
    ELSE NoUser

get_user_by_email(email) ==
    IF \E u \in users : u.email = email
    THEN CHOOSE u \in users : u.email = email
    ELSE NoUser

\* app/services/auth.py
get_refresh_token(token) ==
    IF \E r \in refresh_tokens : r.token = token
    THEN CHOOSE r \in refresh_tokens : r.token = token
    ELSE NoRow

\* the row create_refresh_token builds at instant t; expires_at = 0 stands
\* for None.  login_expires_at is history, filled in by the caller.
create_refresh_token(user_id, expires_at, t) ==
    LET exp == IF expires_at = 0 THEN t + RefreshLifetime ELSE expires_at
        issued_at == t
    IN  [id |-> next_token_id,
         token |-> encode_token(user_id, exp, issued_at),
         user_id |-> user_id,
         expires_at |-> exp,
         issued_at |-> issued_at,
         login_expires_at |-> 0]

\* refresh_tokens.token is unique
TokenStored(token) == \E r \in refresh_tokens : r.token = token

\* revoke_all_user_refresh_tokens: the table without the user's rows; the
\* mutant's query has no filter
RevokeAllUsers(table, user_id) == {}
RevokeAll(table, user_id) == {r \in table : r.user_id # user_id}

RowsOf(table, user_id) == {r \in table : r.user_id = user_id}

-----------------------------------------------------------------------------
(* Responses and requests *)

\* a response, with history of the call: the case the call was made in (as
\* the tables stood when it began), the number of rows it inserted and
\* deleted, whether the rows it deleted are exactly the rows it names,
\* whether the same call made again would leave the table as it is, and for
\* /auth/refresh whether the string presented had been revoked when the call
\* began and whether no row held that string when the call returned
Response(op, status, detail) ==
    [op |-> op, status |-> status, detail |-> detail, case |-> "none",
     inserted |-> 0, deleted |-> 0, exact |-> FALSE, settled |-> FALSE,
     was_revoked |-> FALSE, gone |-> FALSE]

\* the response of a call made in case, which took the table from before to
\* after and names the rows named
Effect(response, case, before, after, named) ==
    [response EXCEPT !.case = case,
                     !.inserted = Cardinality(after \ before),
                     !.deleted = Cardinality(before \ after),
                     !.exact = (before \ after = named)]

NoResponse == Response("none", 0, "")

Workers == 1..NumWorkers

\* a /auth/refresh request: pc is its position in refresh_access_token,
\* row the refresh_token_db it looked up, new the row it inserted;
\* was_revoked and case as in the response
IdleRequest ==
    [pc |-> "idle", row |-> NoRow, new |-> NoRow, was_revoked |-> FALSE,
     case |-> "none"]

\* the response of a /auth/refresh request r
RefreshResponse(r, status, detail, deleted) ==
    [Response("refresh", status, detail) EXCEPT
        !.inserted = IF r.new = NoRow THEN 0 ELSE 1,
        !.deleted = deleted,
        !.case = r.case,
        !.was_revoked = r.was_revoked]

\* the strings a client can present: what the server handed out, or a forgery
Presentable == signed \cup {Forged}

\* get_current_user (app/api/auth.py): the User, or the HTTPException
get_current_user(token, t) ==
    LET payload == decode_token(token, t)
    IN  IF payload.err # "none"
        THEN [err |-> "Could not validate credentials", val |-> NoUser]
        ELSE IF payload.val.exp < t
        THEN [err |-> "Expired token", val |-> NoUser]
        ELSE IF get_user_by_id(payload.val.sub) = NoUser
        THEN [err |-> "Could not validate credentials", val |-> NoUser]
        ELSE [err |-> "none", val |-> get_user_by_id(payload.val.sub)]

\* the bearer strings a client can present, one for each answer
\* get_current_user gives at instant t
Bearers(t) ==
    {CHOOSE b \in Presentable : get_current_user(b, t) = answer :
        answer \in {get_current_user(b, t) : b \in Presentable}}

\* the strings a client can present as a refresh token, as far as the
\* handlers can tell them apart: one that a row holds, one that a row held,
\* or one that no row ever held
Refreshable ==
    {t \in signed : t \in revoked \/ \E r \in refresh_tokens : r.token = t}
        \cup {Forged}

\* the instant of the row's expiry has passed (routes/auth.py line 60);
\* the mutant never finds a row expired
IsExpiredNever(row, t) == FALSE
IsExpired(row, t) == row.expires_at < t

\* the expiry refresh_access_token hands to create_refresh_token (line 68);
\* the mutant hands None
RotatedExpiryNone(refresh_token_db) == 0
RotatedExpiry(refresh_token_db) == refresh_token_db.expires_at

\* logout's ownership test (line 114); the mutant leaves it out
OwnedByAnyone(refresh_token_db, current_user) == TRUE
OwnedBy(refresh_token_db, current_user) ==
    refresh_token_db.user_id = current_user.id

-----------------------------------------------------------------------------
(* Inputs *)

\* the third address is of nobody
Emails == {"alice@example.com", "bob@example.com", "carol@example.com"}

PasswordA == <<"A", "b", "c", "1", "2", "3", "!", "@">>
PasswordB == <<"X", "y", "z", "7", "8", "9", "?", "&">>

LoginPasswords == {PasswordA, PasswordB}

\* the password each registered address was registered with
RegisteredPassword(email) ==
    IF email = "alice@example.com" THEN PasswordA ELSE PasswordB

-----------------------------------------------------------------------------
(* app/services/user.py create_user: the row added to table, with the     *)
(* primary key id                                                          *)

create_user(table, id, email, password, rnd) ==
    LET is_first_user == Cardinality(table) = 0
        is_admin == is_first_user /\ ENABLE_FIRST_USER_ADMIN
    IN  [id |-> id, email |-> email,
         password_hash |-> generate_hashed_password(password, None, rnd).val,
         is_admin |-> is_admin]

\* the users table after alice, then bob, registered
Alice ==
    create_user({}, 1, "alice@example.com", PasswordA,
                [i \in 1..MinSaltLen |-> "a"])
Bob ==
    create_user({Alice}, 2, "bob@example.com", PasswordB,
                [i \in 1..MinSaltLen |-> ":"])

-----------------------------------------------------------------------------
(* Initial state: two registered users, no session, no request in flight *)

HashingIdle ==
    [pc |-> "idle", password |-> <<>>, salt |-> <<>>, stored |-> <<>>,
     origin |-> "none", tried |-> <<>>, result |-> "none"]

Init ==
    /\ users = {Alice, Bob}
    /\ refresh_tokens = {}
    /\ next_user_id = 3
    /\ next_token_id = 1
    /\ now = 0
    /\ signed = {}
    /\ revoked = {}
    /\ rotated = {}
    /\ rotated_again = {}
    /\ req = [w \in Workers |-> IdleRequest]
    /\ last = NoResponse
    /\ hashing = HashingIdle
    /\ cameras = {}
    /\ camera_subscriptions = {}
    /\ videos = {}
    /\ db_type = "sqlite"
    /\ orphaned = {}

-----------------------------------------------------------------------------
(* The clock *)

Tick ==
    /\ now < MaxTicks
    /\ now' = now + 1
    /\ UNCHANGED <<catalogue, orphaned, users, refresh_tokens, next_user_id, next_token_id, signed,
                   revoked, rotated, rotated_again, req, last, hashing>>

Jump ==
    /\ now < Later
    /\ now' = Later
    /\ UNCHANGED <<catalogue, orphaned, users, refresh_tokens, next_user_id, next_token_id, signed,
                   revoked, rotated, rotated_again, req, last, hashing>>

-----------------------------------------------------------------------------
(* app/api/routes/auth.py login_for_access_token *)

LoginFailed == "Incorrect username or password"

\* the mutant tells a caller that the address is of nobody
LoginCheckLeaky(user, password) ==
    IF user = NoUser THEN Response("login", 404, "User not found")
    ELSE IF verify_password(password, user.password_hash) = "True"
    THEN Response("login", 200, "")
    ELSE Response("login", 401, LoginFailed)

\* lines 37-44: the response the credential check decides (200: go on)
LoginCheck(user, password) ==
    IF user = NoUser THEN Response("login", 401, LoginFailed)
    ELSE LET verified == verify_password(password, user.password_hash)
         IN  IF verified = "IndexError"
             THEN Response("login", 500, "IndexError")
             ELSE IF verified = "False"
             THEN Response("login", 401, LoginFailed)
             ELSE Response("login", 200, "")

Login(email, password) ==
    LET user == get_user_by_email(email)
        checked == LoginCheck(user, password)
        access_token == create_access_token(user.id, AccessLifetime, now)
        refresh_token == [create_refresh_token(user.id, 0, now)
                             EXCEPT !.login_expires_at = now + RefreshLifetime]
        case == IF ~\E u \in users : u.email = email THEN "unknown_email"
                ELSE IF password # RegisteredPassword(email)
                THEN "wrong_password"
                ELSE "registered"
    IN  /\ IF checked.status # 200
           THEN /\ UNCHANGED <<refresh_tokens, next_token_id, signed>>
                /\ last' = Effect(checked, case, refresh_tokens,
                                  refresh_tokens', {})
           ELSE IF TokenStored(refresh_token.token)
           THEN \* refresh_tokens.token is unique: IntegrityError
                /\ UNCHANGED <<refresh_tokens, next_token_id, signed>>
                /\ last' = Effect(Response("login", 500, "IntegrityError"),
                                  case, refresh_tokens, refresh_tokens', {})
           ELSE /\ next_token_id <= MaxTokenRows
                /\ refresh_tokens' = refresh_tokens \cup {refresh_token}
                /\ next_token_id' = next_token_id + 1
                /\ signed' = signed \cup {access_token, refresh_token.token}
                /\ last' = Effect(checked, case, refresh_tokens,
                                  refresh_tokens', {})
        /\ UNCHANGED <<catalogue, orphaned, users, next_user_id, now, revoked, rotated,
                       rotated_again, req, hashing>>

-----------------------------------------------------------------------------
(* app/api/routes/auth.py refresh_access_token, one step per store access *)

\* line 58-61: get_refresh_token and the expiry check.  A request is taken
\* by the first free worker.
RefreshLookup(w, token) ==
    LET refresh_token_db == get_refresh_token(token)
        case == IF ~\E r \in refresh_tokens : r.token = token THEN "missing"
                ELSE IF \E r \in refresh_tokens :
                            r.token = token /\ r.expires_at < now
                THEN "expired"
                ELSE "live"
        started == [IdleRequest EXCEPT !.was_revoked = token \in revoked,
                                       !.case = case]
        refused == RefreshResponse(started, 401,
                                   "Invalid or expired refresh token", 0)
    IN  /\ req[w].pc = "idle"
        /\ \A v \in Workers : v < w => req[v].pc # "idle"
        /\ UNCHANGED <<catalogue, orphaned, users, refresh_tokens, next_user_id, next_token_id,
                       now, signed, revoked, rotated, rotated_again, hashing>>
        /\ IF refresh_token_db = NoRow \/ IsExpired(refresh_token_db, now)
           THEN /\ last' = Effect(refused, case, refresh_tokens,
                                  refresh_tokens', {})
                /\ UNCHANGED req
           ELSE /\ req' = [req EXCEPT ![w] =
                       [started EXCEPT !.pc = "found",
                                       !.row = refresh_token_db]]
                /\ UNCHANGED last

\* line 63-65: get_user_by_id
RefreshGetUser(w) ==
    /\ req[w].pc = "found"
    /\ IF get_user_by_id(req[w].row.user_id) = NoUser
       THEN /\ last' = RefreshResponse(req[w], 401, "User not found", 0)
            /\ req' = [req EXCEPT ![w] = IdleRequest]
       ELSE /\ req' = [req EXCEPT ![w].pc = "user"]
            /\ UNCHANGED last
    /\ UNCHANGED <<catalogue, orphaned, users, refresh_tokens, next_user_id, next_token_id, now,
                   signed, revoked, rotated, rotated_again, hashing>>

\* line 68: create_refresh_token(db_session, user.id, expires_at), committed
RefreshInsert(w) ==
    LET old == req[w].row
        new_refresh_token ==
            [create_refresh_token(old.user_id, RotatedExpiry(old), now)
                EXCEPT !.login_expires_at = old.login_expires_at]
    IN  /\ req[w].pc = "user"
        /\ IF TokenStored(new_refresh_token.token)
           THEN \* refresh_tokens.token is unique: IntegrityError
                /\ last' = RefreshResponse(req[w], 500, "IntegrityError", 0)
                /\ req' = [req EXCEPT ![w] = IdleRequest]
                /\ UNCHANGED <<refresh_tokens, next_token_id>>
           ELSE /\ next_token_id <= MaxTokenRows
                /\ refresh_tokens' = refresh_tokens \cup {new_refresh_token}
                /\ next_token_id' = next_token_id + 1
                /\ req' = [req EXCEPT ![w].pc = "inserted",
                                      ![w].new = new_refresh_token]
                /\ UNCHANGED last
        /\ UNCHANGED <<catalogue, orphaned, users, next_user_id, now, signed, revoked, rotated,
                       rotated_again, hashing>>

\* line 69, revoke_refresh_token, first half: the commit of line 68 expired
\* refresh_token_db in the session, so flushing db.delete reloads it by
\* primary key; a row that is gone raises ObjectDeletedError
RefreshReload(w) ==
    /\ req[w].pc = "inserted"
    /\ IF \E r \in refresh_tokens : r.id = req[w].row.id
       THEN /\ req' = [req EXCEPT ![w].pc = "reloaded"]
            /\ UNCHANGED last
       ELSE /\ last' = RefreshResponse(req[w], 500, "ObjectDeletedError", 0)
            /\ req' = [req EXCEPT ![w] = IdleRequest]
    /\ UNCHANGED <<catalogue, orphaned, users, refresh_tokens, next_user_id, next_token_id, now,
                   signed, revoked, rotated, rotated_again, hashing>>

\* line 69, second half: DELETE by primary key and commit (a DELETE that
\* matches no row only warns); lines 71-74: the new tokens are returned
RefreshDelete(w) ==
    LET old == req[w].row
        matched == {r \in refresh_tokens : r.id = old.id}
        new_access_token == create_access_token(old.user_id, AccessLifetime, now)
    IN  /\ req[w].pc = "reloaded"
        /\ refresh_tokens' = refresh_tokens \ matched
        /\ revoked' = revoked \cup {r.token : r \in matched}
        /\ signed' = signed \cup {new_access_token, req[w].new.token}
        /\ rotated' = rotated \cup {old.id}
        /\ rotated_again' = IF old.id \in rotated
                            THEN rotated_again \cup {old.id}
                            ELSE rotated_again
        /\ last' = [RefreshResponse(req[w], 200, "", Cardinality(matched))
                       EXCEPT !.gone = ~\E r \in refresh_tokens' :
                                            r.token = old.token]
        /\ req' = [req EXCEPT ![w] = IdleRequest]
        /\ UNCHANGED <<catalogue, orphaned, users, next_user_id, next_token_id, now, hashing>>

-----------------------------------------------------------------------------
(* app/api/routes/auth.py logout and logout_all *)

Logout(bearer, token) ==
    LET current_user == get_current_user(bearer, now)
        refresh_token_db == get_refresh_token(token)
        mine == {r \in refresh_tokens :
                    r.token = token /\ r.user_id = current_user.val.id}
        case == IF current_user.err # "none" THEN "unauthenticated"
                ELSE IF mine # {} THEN "own_row"
                ELSE "no_own_row"
    IN  /\ IF current_user.err # "none"
           THEN /\ UNCHANGED <<refresh_tokens, revoked>>
                /\ last' = Effect(Response("logout", 401, current_user.err),
                                  case, refresh_tokens, refresh_tokens', mine)
           ELSE IF \/ refresh_token_db = NoRow
                   \/ ~OwnedBy(refresh_token_db, current_user.val)
           THEN /\ UNCHANGED <<refresh_tokens, revoked>>
                /\ last' = Effect(Response("logout", 401,
                                      "Invalid refresh token or not owned by user"),
                                  case, refresh_tokens, refresh_tokens', mine)
           ELSE /\ refresh_tokens' = refresh_tokens \ {refresh_token_db}
                /\ revoked' = revoked \cup {refresh_token_db.token}
                /\ last' = Effect(Response("logout", 204, ""), case,
                                  refresh_tokens, refresh_tokens', mine)
        /\ UNCHANGED <<catalogue, orphaned, users, next_user_id, next_token_id, now, signed,
                       rotated, rotated_again, req, hashing>>

LogoutAll(bearer) ==
    LET current_user == get_current_user(bearer, now)
        user_id == current_user.val.id
        theirs == {r \in refresh_tokens : r.user_id = user_id}
    IN  /\ IF current_user.err # "none"
           THEN /\ UNCHANGED <<refresh_tokens, revoked>>
                /\ last' = Effect(Response("logout_all", 401, current_user.err),
                                  "unauthenticated", refresh_tokens,
                                  refresh_tokens', {})
           ELSE /\ refresh_tokens' = RevokeAll(refresh_tokens, user_id)
                /\ revoked' = revoked \cup {r.token : r \in theirs}
                /\ last' = [Effect(Response("logout_all", 204, ""),
                                   "authenticated", refresh_tokens,
                                   refresh_tokens', theirs)
                               EXCEPT !.settled =
                                   RevokeAll(refresh_tokens', user_id)
                                       = refresh_tokens']
        /\ UNCHANGED <<catalogue, orphaned, users, next_user_id, next_token_id, now, signed,
                       rotated, rotated_again, req, hashing>>

-----------------------------------------------------------------------------
(* The credential hasher called on its own: a password is hashed under a   *)
(* salt and the stored string verified, or a string that                   *)
(* generate_hashed_password did not write is verified                      *)

HashPasswords == StringsOver(Chars, 0, MaxPasswordLen)
HashSalts == {None} \cup StringsOver(Chars, 0, MaxSaltLen)
StoredStrings == StringsOver({"a", ":", "$"}, 0, MaxStoredLen)

HashInit ==
    /\ users = {}
    /\ refresh_tokens = {}
    /\ next_user_id = 1
    /\ next_token_id = 1
    /\ now = 0
    /\ signed = {}
    /\ revoked = {}
    /\ rotated = {}
    /\ rotated_again = {}
    /\ req = [w \in Workers |-> IdleRequest]
    /\ last = NoResponse
    /\ cameras = {}
    /\ camera_subscriptions = {}
    /\ videos = {}
    /\ db_type = "sqlite"
    /\ orphaned = {}
    /\ \/ \E password \in HashPasswords, salt \in HashSalts :
              hashing = [HashingIdle EXCEPT !.pc = "start",
                                            !.password = password,
                                            !.salt = salt]
       \/ \E stored \in StoredStrings :
              hashing = [HashingIdle EXCEPT !.pc = "stored",
                                            !.stored = stored,
                                            !.origin = "loaded"]

Generate(rnd) ==
    LET out == generate_hashed_password(hashing.password, hashing.salt, rnd)
    IN  /\ hashing.pc = "start"
        /\ IF out.err # "none"
           THEN hashing' = [hashing EXCEPT !.pc = "raised", !.result = out.err]
           ELSE hashing' = [hashing EXCEPT !.pc = "stored",
                                           !.stored = out.val,
                                           !.origin = "generated"]
        /\ UNCHANGED <<catalogue, orphaned, users, refresh_tokens, next_user_id, next_token_id,
                       now, signed, revoked, rotated, rotated_again, req,
                       last>>

Verify(password) ==
    /\ hashing.pc = "stored"
    /\ hashing' = [hashing EXCEPT
           !.pc = "verified",
           !.tried = password,
           !.result = verify_password(password, hashing.stored)]
    /\ UNCHANGED <<catalogue, orphaned, users, refresh_tokens, next_user_id, next_token_id, now,
                   signed, revoked, rotated, rotated_again, req, last>>

HashNext ==
    \/ \E rnd \in RandomSalts : Generate(rnd)
    \/ \E password \in HashPasswords : Verify(password)

HashSpec == HashInit /\ [][HashNext]_vars

-----------------------------------------------------------------------------
(* Specifications *)

NoneInFlight == \A w \in Workers : req[w].pc = "idle"

RefreshStep(w) ==
    \/ RefreshGetUser(w)
    \/ RefreshInsert(w)
    \/ RefreshReload(w)
    \/ RefreshDelete(w)

\* every handler of the session manager, one /auth/refresh at a time, while
\* the tokens handed out are within their lifetime
Next ==
    \/ Tick
    \/ \E email \in Emails, password \in LoginPasswords : Login(email, password)
    \/ \E w \in Workers, token \in Refreshable :
           NoneInFlight /\ RefreshLookup(w, token)
    \/ \E w \in Workers : RefreshStep(w)
    \/ \E bearer \in Bearers(now), token \in Refreshable :
           Logout(bearer, token)
    \/ \E bearer \in Bearers(now) : LogoutAll(bearer)

Spec == Init /\ [][Next]_vars

\* logins and /auth/refresh requests that overlap, up to and past the expiry
\* of the tokens handed out
RaceNext ==
    \/ Tick
    \/ Jump
    \/ \E email \in Emails, password \in LoginPasswords : Login(email, password)
    \/ \E w \in Workers, token \in Refreshable : RefreshLookup(w, token)
    \/ \E w \in Workers : RefreshStep(w)

RaceSpec == Init /\ [][RaceNext]_vars

-----------------------------------------------------------------------------
(* Claims *)

\* C1: of the /auth/refresh requests that overlap on one refresh-token row
\* (they presented the same string and each looked the row up before any
\* deleted it) at most one returns success: no row is rotated a second time.
AtMostOneRefreshSucceeds == rotated_again = {}

\* C2: REVOKED is terminal: a refresh call that presents a string whose row
\* had been deleted (by rotation, logout or logout_all) before the call began
\* does not return success.
RevokedIsTerminal ==
    (last.op = "refresh" /\ last.status = 200) => ~last.was_revoked

\* C3: rotation never extends a session: every stored row, whatever the
\* chain of refreshes that produced it, expires at the instant fixed by the
\* login that started the chain.
RotationKeepsExpiry ==
    \A r \in refresh_tokens : r.expires_at = r.login_expires_at

\* C3 witness: a row written by a rotation later than its login, at an
\* instant from which a fresh lifetime would end later than the row does
RotatedRowStored ==
    \E r \in refresh_tokens :
        /\ r.issued_at + RefreshLifetime > r.login_expires_at
        /\ r.expires_at = r.login_expires_at

\* C4: a refresh that returns success inserted exactly one row and deleted
\* exactly one, the row of the string presented, which is gone; a refresh
\* that does not return success inserted and deleted nothing.
RefreshIsAtomic ==
    last.op = "refresh" =>
        IF last.status = 200
        THEN last.inserted = 1 /\ last.deleted = 1 /\ last.gone
        ELSE last.inserted = 0 /\ last.deleted = 0

\* C5: a refresh presenting a string that no row holds, or whose row has
\* expires_at in the past, is answered 401 Unauthorized and leaves the
\* refresh_tokens table as it was: no row inserted, none deleted.
RefreshRejectsMissingOrExpired ==
    (last.op = "refresh" /\ last.case \in {"missing", "expired"})
    => /\ last.status = 401
       /\ last.inserted = 0
       /\ last.deleted = 0

\* C5 witness: a refresh was refused for an expired row, which is still stored
ExpiredRefreshRefused ==
    /\ last.op = "refresh"
    /\ last.status = 401
    /\ last.case = "expired"
    /\ \E r \in refresh_tokens : r.expires_at < now

\* C6: logout(t, caller) by an authenticated caller deletes exactly the row
\* holding t when that row exists and is the caller's, and otherwise answers
\* 401 Unauthorized and deletes nothing.
LogoutDeletesOwnRowOnly ==
    (last.op = "logout" /\ last.case # "unauthenticated")
    => IF last.case = "own_row"
       THEN /\ last.status = 204
            /\ last.deleted = 1
            /\ last.inserted = 0
            /\ last.exact
       ELSE /\ last.status = 401
            /\ last.deleted = 0
            /\ last.inserted = 0

\* C6 witness: a logout deleted the caller's row while other rows stay stored
LogoutDeletedOneRow ==
    /\ last.op = "logout"
    /\ last.case = "own_row"
    /\ last.status = 204
    /\ last.deleted = 1
    /\ refresh_tokens # {}

\* C7: logout_all by an authenticated user u answers 204 whether or not u has
\* rows, removes every row of u and no row of another user, and leaves a
\* table that a second logout_all by u would not change.
LogoutAllRemovesOwnRows ==
    (last.op = "logout_all" /\ last.case = "authenticated")
    => /\ last.status = 204
       /\ last.inserted = 0
       /\ last.exact
       /\ last.settled

\* C7 witness: a logout_all deleted rows while another user's rows stay stored
LogoutAllDeletedRows ==
    /\ last.op = "logout_all"
    /\ last.status = 204
    /\ last.deleted >= 1
    /\ refresh_tokens # {}

\* C8: a login with a wrong password for a registered address and a login
\* for an address of nobody get the same response, 401 with one message, and
\* neither inserts a refresh_tokens row.
LoginFailureIndistinguishable ==
    (last.op = "login" /\ last.case \in {"unknown_email", "wrong_password"})
    => /\ last.status = 401
       /\ last.detail = LoginFailed
       /\ last.inserted = 0
       /\ last.deleted = 0

\* C8 witness: a login with a wrong password for a registered address was
\* refused while sessions of other logins exist
LoginRefused ==
    /\ last.op = "login"
    /\ last.case = "wrong_password"
    /\ last.status = 401
    /\ refresh_tokens # {}

\* C9: hash/verify round trip: the string generate_hashed_password wrote for
\* a password under a salt of at least MinSaltLen characters verifies that
\* password.
HashVerifyRoundTrip ==
    (/\ hashing.pc = "verified"
     /\ hashing.origin = "generated"
     /\ hashing.salt # None
     /\ Len(hashing.salt) >= MinSaltLen
     /\ hashing.tried = hashing.password)
    => hashing.result = "True"

\* C10: verify_password never raises: whatever the stored string, it
\* returns true or false.
VerifyNeverRaises ==
    hashing.pc = "verified" => hashing.result \in {"True", "False"}

-----------------------------------------------------------------------------
(* The camera catalogue: tables cameras and camera_subscriptions, and the  *)
(* storage engine                                                          *)

\* default page of the list queries
DefaultLimit == 100

\* the reconciler's catalogue holds one camera more than a default page;
\* MissingCamera is the id of no camera row, NobodyId the id of no user row
ManyCameras == DefaultLimit + 1
MissingCamera == DefaultLimit + 2
NobodyId == 9

\* a cameras row; the host address is written as a number
Camera(id) == [id |-> id, host_address |-> id]

\* a camera_subscriptions row
Subscription(user_id, camera_id) == [user_id |-> user_id, camera_id |-> camera_id]

CameraIds == {c.id : c \in cameras}
UserIds == {u.id : u \in users}

Range(seq) == {seq[i] : i \in DOMAIN seq}

\* the rows a query returns come in primary-key order: the ids of a set,
\* ascending
Ascending(ids) ==
    LET Held(id) == id \in ids
    IN  SelectSeq([id \in 1..MissingCamera |-> id], Held)

\* query.offset(skip).limit(limit).all()
Page(rows, skip, limit) ==
    SubSeq(rows, skip + 1,
           IF Len(rows) < skip + limit THEN Len(rows) ELSE skip + limit)

\* SQLite, as the engine is created, does not check foreign keys;
\* PostgreSQL does
ForeignKeysEnforced == db_type = "postgres"

\* User.cameras and Camera.users, the relationships through the
\* camera_subscriptions table
UserCameras(table, user_id) ==
    {c \in cameras : Subscription(user_id, c.id) \in table}
CameraUsers(table, camera_id) ==
    {u \in users : Subscription(u.id, camera_id) \in table}

-----------------------------------------------------------------------------
(* app/crud/camera_subscription.py: every operator takes the table and     *)
(* yields the table as the call leaves it                                  *)

get_camera_subscriptions_by_user_id(table, user_id, skip, limit) ==
    LET ids == Ascending({r.camera_id : r \in {x \in table : x.user_id = user_id}})
    IN  Page([i \in DOMAIN ids |-> Subscription(user_id, ids[i])], skip, limit)

\* add, commit: the row is inserted and committed, or the engine refuses it
\* on the primary key (user_id, camera_id) or on a foreign key
create_camera_subscription(table, camera_subscription) ==
    IF \/ camera_subscription \in table
       \/ /\ ForeignKeysEnforced
          /\ \/ camera_subscription.camera_id \notin CameraIds
             \/ camera_subscription.user_id \notin UserIds
    THEN Raised("IntegrityError")
    ELSE Returned(table \cup {camera_subscription})

\* delete, commit
delete_camera_subscription(table, camera_subscription) ==
    table \ {camera_subscription}

\* the list comprehension of update_camera_subscriptions: one
\* create_camera_subscription after the other, each with its own commit,
\* until one raises.  The call on rows[i] meets the table with the rows
\* before it inserted; stored tells whether the row refused was stored
CreateEach(table, rows) ==
    LET Before(i) == table \cup {rows[j] : j \in 1..(i - 1)}
        Call(i) == create_camera_subscription(Before(i), rows[i])
        refused == {i \in DOMAIN rows : Call(i).err # "none"}
        first == CHOOSE i \in refused : \A j \in refused : i <= j
    IN  IF refused = {}
        THEN [table |-> table \cup Range(rows), err |-> "none",
              stored |-> FALSE]
        ELSE [table |-> Before(first), err |-> Call(first).err,
              stored |-> rows[first] \in Before(first)]

update_camera_subscriptions(table, user_id, camera_ids) ==
    LET old_subscriptions ==
            get_camera_subscriptions_by_user_id(table, user_id, 0, DefaultLimit)
        AlreadyExists(camera_id) ==
            Subscription(user_id, camera_id) \in Range(old_subscriptions)
        Missing(camera_id) == ~AlreadyExists(camera_id)
        subscriptions_to_keep ==
            {Subscription(user_id, camera_ids[i]) :
                 i \in {j \in DOMAIN camera_ids : AlreadyExists(camera_ids[j])}}
        to_create == SelectSeq(camera_ids, Missing)
        subscriptions_to_create ==
            [i \in DOMAIN to_create |-> Subscription(user_id, to_create[i])]
        Extra(subscription) ==
            /\ subscription \notin subscriptions_to_keep
            /\ subscription \notin Range(subscriptions_to_create)
        deleted_subscriptions == SelectSeq(old_subscriptions, Extra)
        deleted == table \ Range(deleted_subscriptions)
        created == CreateEach(deleted, subscriptions_to_create)
    IN  [table |-> created.table,
         err |-> created.err,
         stored |-> created.stored,
         result |-> IF created.err = "none"
                    THEN subscriptions_to_create \o deleted_subscriptions
                    ELSE <<>>]

-----------------------------------------------------------------------------
(* app/services/camera_subscription.py                                     *)

create_camera_subscriptions_by_user(table, user_id, camera_ids) ==
    LET db_user == get_user_by_id(user_id)
        subscribed_camera_ids == {c.id : c \in UserCameras(table, user_id)}
        unsubscribed_camera_ids == Range(camera_ids) \ subscribed_camera_ids
        appended == {Subscription(user_id, id) :
                         id \in unsubscribed_camera_ids \cap CameraIds}
    IN  IF db_user = NoUser
        THEN [table |-> table, err |-> "none", stored |-> FALSE,
              result |-> <<>>]
        ELSE [table |-> table \cup appended,
              err |-> "none",
              stored |-> appended \cap table # {},
              result |-> [i \in DOMAIN Ascending({r.camera_id : r \in appended})
                            |-> Subscription(user_id,
                                   Ascending({r.camera_id : r \in appended})[i])]]

create_camera_subscriptions_by_camera(table, camera_id, user_ids) ==
    LET subscribed_user_ids == {u.id : u \in CameraUsers(table, camera_id)}
        unsubscribed_user_ids == Range(user_ids) \ subscribed_user_ids
        appended == {Subscription(id, camera_id) :
                         id \in unsubscribed_user_ids \cap UserIds}
    IN  IF camera_id \notin CameraIds
        THEN [table |-> table, err |-> "none", stored |-> FALSE,
              result |-> <<>>]
        ELSE [table |-> table \cup appended,
              err |-> "none",
              stored |-> appended \cap table # {},
              result |-> [i \in DOMAIN Ascending({r.user_id : r \in appended})
                            |-> Subscription(
                                   Ascending({r.user_id : r \in appended})[i],
                                   camera_id)]]

-----------------------------------------------------------------------------
(* The reconciler called on its own                                        *)

\* the record of a call on the subscriptions table: the call and its
\* arguments, how it ended, what it returned, the table when it began,
\* whether it repeats the call before it (which returned), and whether it
\* sent the engine an insert of a pair that was stored
Applied(op, key, ids, out, before) ==
    [op |-> op, key |-> key, ids |-> ids,
     status |-> IF out.err = "none" THEN "returned" ELSE "raised",
     result |-> out.result,
     before |-> before,
     repeat |-> /\ last.op = op
                /\ last.key = key
                /\ last.ids = ids
                /\ last.status = "returned",
     stored_insert |-> out.stored]

EveryCamera == [i \in 1..ManyCameras |-> i]

\* lists of camera ids a caller sends: empty, short, with a repeated id,
\* with the id of no camera, and longer than a default page
CameraIdLists ==
    {<<>>, <<1>>, <<2>>, <<1, 1>>, <<MissingCamera>>, EveryCamera}

\* the lists sent to the additive calls
AddedCameraIdLists == {<<1>>, <<1, 1>>, <<MissingCamera>>}
AddedUserIdLists == {<<1, 2>>, <<2, 2>>, <<NobodyId>>}

ReconcileInit ==
    /\ users = {Alice, Bob}
    /\ refresh_tokens = {}
    /\ next_user_id = 3
    /\ next_token_id = 1
    /\ now = 0
    /\ signed = {}
    /\ revoked = {}
    /\ rotated = {}
    /\ rotated_again = {}
    /\ req = [w \in Workers |-> IdleRequest]
    /\ last = NoResponse
    /\ hashing = HashingIdle
    /\ cameras = {Camera(id) : id \in 1..ManyCameras}
    /\ camera_subscriptions = {}
    /\ videos = {}
    /\ db_type \in {"sqlite", "postgres"}
    /\ orphaned = {}

Reconciled(op, key, ids, out) ==
    /\ camera_subscriptions' = out.table
    /\ last' = Applied(op, key, ids, out, camera_subscriptions)
    /\ UNCHANGED <<users, refresh_tokens, next_user_id, next_token_id, now,
                   signed, revoked, rotated, rotated_again, req, hashing,
                   cameras, videos, db_type, orphaned>>

UpdateCameraSubscriptions(user_id, camera_ids) ==
    Reconciled("update_camera_subscriptions", user_id, camera_ids,
               update_camera_subscriptions(camera_subscriptions, user_id,
                                           camera_ids))

CreateCameraSubscriptionsByUser(user_id, camera_ids) ==
    Reconciled("create_camera_subscriptions_by_user", user_id, camera_ids,
               create_camera_subscriptions_by_user(camera_subscriptions,
                                                   user_id, camera_ids))

CreateCameraSubscriptionsByCamera(camera_id, user_ids) ==
    Reconciled("create_camera_subscriptions_by_camera", camera_id, user_ids,
               create_camera_subscriptions_by_camera(camera_subscriptions,
                                                     camera_id, user_ids))

ReconcileNext ==
    \/ \E user_id \in UserIds, camera_ids \in CameraIdLists :
           UpdateCameraSubscriptions(user_id, camera_ids)
    \/ \E user_id \in {2, NobodyId}, camera_ids \in AddedCameraIdLists :
           CreateCameraSubscriptionsByUser(user_id, camera_ids)
    \/ \E camera_id \in {1, MissingCamera}, user_ids \in AddedUserIdLists :
           CreateCameraSubscriptionsByCamera(camera_id, user_ids)

ReconcileSpec == ReconcileInit /\ [][ReconcileNext]_vars

-----------------------------------------------------------------------------
(* Claims on the reconciler *)

\* the camera ids the table holds for a user
StoredSet(user_id) ==
    {r.camera_id : r \in {x \in camera_subscriptions : x.user_id = user_id}}

\* C11: after update_camera_subscriptions(u, S) returns, the camera ids
\* stored for u are exactly the ids of S that name an existing camera
ReconciliationCorrect ==
    (last.op = "update_camera_subscriptions" /\ last.status = "returned")
        => StoredSet(last.key) = Range(last.ids) \cap CameraIds

\* C12: update_camera_subscriptions called twice in a row with the same
\* user and the same list: the second call returns an empty list of changes
\* and leaves the table as it was
UpdateIdempotent ==
    (last.op = "update_camera_subscriptions" /\ last.repeat)
        => /\ last.status = "returned"
           /\ last.result = <<>>
           /\ camera_subscriptions = last.before

\* C13: the deletions and creations of one update_camera_subscriptions call
\* are one unit: when the call raises, the table is as it was before the call
UpdateIsOneUnit ==
    (last.op = "update_camera_subscriptions" /\ last.status = "raised")
        => camera_subscriptions = last.before

\* C14: no call of the reconciler sends the engine an insert of a
\* (user_id, camera_id) pair that is already stored
NoInsertOfStoredPair ==
    last.op # "none" => ~last.stored_insert

-----------------------------------------------------------------------------
(* The access policy of the routes: app/api/routes/users.py, cameras.py    *)
(* and videos.py.  current_user is the users row get_current_user resolved *)
(* the bearer token to.                                                    *)

MaxCameraId == 3       \* cameras rows ever inserted by the routes

\* a videos row
Video(id, file_name, camera_id) ==
    [id |-> id, file_name |-> file_name, camera_id |-> camera_id]

NoCamera == [id |-> 0, host_address |-> 0]
NoVideo == Video(0, <<>>, 0)

\* IDorEmail: the path identity, an int or a str
IDorEmail(kind, value) == [kind |-> kind, value |-> value]

\* app/core/utils.py; the mutant matches every identity
MatchesAnyone(id_or_email, user) == TRUE
user_matches_id_or_email(id_or_email, user) ==
    IF id_or_email.kind = "int"
    THEN user.id = id_or_email.value
    ELSE user.email = id_or_email.value

\* app/services/user.py get_user
get_user(user_id_or_email) ==
    IF user_id_or_email.kind = "int"
    THEN get_user_by_id(user_id_or_email.value)
    ELSE get_user_by_email(user_id_or_email.value)

get_camera(camera_id) ==
    IF \E c \in cameras : c.id = camera_id
    THEN CHOOSE c \in cameras : c.id = camera_id
    ELSE NoCamera

\* get_cameras: the rows with an id of camera_ids (every row when the list
\* is empty), in primary-key order, one page of them
get_cameras(camera_ids, skip, limit) ==
    LET ids == Ascending({c.id : c \in {x \in cameras :
                   camera_ids = <<>> \/ x.id \in Range(camera_ids)}})
    IN  Page([i \in DOMAIN ids |-> get_camera(ids[i])], skip, limit)

\* the mutant finds no camera at any address
NoCamerasByHostAddress(host_address) == {}
get_cameras_by_host_address(host_address) ==
    {c \in cameras : c.host_address = host_address}

get_video_entry(video_id) ==
    IF \E v \in videos : v.id = video_id
    THEN CHOOSE v \in videos : v.id = video_id
    ELSE NoVideo

\* "db_camera not in current_user.cameras" negated; the mutant takes every
\* caller as subscribed
InCamerasAlways(table, db_camera, current_user) == TRUE
InCameras(table, db_camera, current_user) ==
    db_camera \in UserCameras(table, current_user.id)

\* app/services/camera_subscription.py delete_camera_subscriptions_by_user:
\* list.remove raises ValueError on a camera the user is not subscribed to,
\* before the commit; a user that does not exist gets [].  The mutant
\* unlinks the cameras found that the user is subscribed to and passes
\* over the others
delete_subscribed_only(table, user_id, camera_ids) ==
    LET found == Range(get_cameras(camera_ids, 0, DefaultLimit))
        removed == {Subscription(user_id, c.id) : c \in found} \cap table
    IN  [table |-> table \ removed, err |-> "none", stored |-> FALSE,
         result |-> removed]
delete_camera_subscriptions_by_user(table, user_id, camera_ids) ==
    LET found == Range(get_cameras(camera_ids, 0, DefaultLimit))
        removed == {Subscription(user_id, c.id) : c \in found}
    IN  IF get_user_by_id(user_id) = NoUser
        THEN [table |-> table, err |-> "none", stored |-> FALSE,
              result |-> {}]
        ELSE IF \E c \in found : c \notin UserCameras(table, user_id)
        THEN [table |-> table, err |-> "ValueError", stored |-> FALSE,
              result |-> {}]
        ELSE [table |-> table \ removed, err |-> "none", stored |-> FALSE,
              result |-> removed]

\* services/user.py get_users: a page of the users, of those with the ids
\* sent when any is sent
get_users(user_ids, skip, limit) ==
    LET ids == Ascending({u.id : u \in {x \in users :
                   user_ids = <<>> \/ x.id \in Range(user_ids)}})
    IN  Page([i \in DOMAIN ids |-> get_user_by_id(ids[i])], skip, limit)

\* line 120 builds each result as CameraSubscription(user_id=camera_id,
\* camera_id=user.id)
delete_camera_subscriptions_by_camera(table, camera_id, user_ids) ==
    LET found == Range(get_users(user_ids, 0, DefaultLimit))
        removed == {Subscription(u.id, camera_id) : u \in found}
    IN  IF get_camera(camera_id) = NoCamera
        THEN [table |-> table, err |-> "none", stored |-> FALSE,
              result |-> {}]
        ELSE IF \E u \in found : u \notin CameraUsers(table, camera_id)
        THEN [table |-> table, err |-> "ValueError", stored |-> FALSE,
              result |-> {}]
        ELSE [table |-> table \ removed, err |-> "none", stored |-> FALSE,
              result |-> {Subscription(camera_id, u.id) : u \in found}]

MaxUserId == 3

\* the salt of the passwords registered after bob's
RegisteredSalt == [i \in 1..MinSaltLen |-> "a"]

\* users.id is an integer primary key: SQLite gives a new row one more than
\* the largest id stored, Postgres the next value of the column's sequence
NextUserId ==
    IF db_type = "sqlite"
    THEN 1 + Cardinality({i \in 1..MaxUserId : \E u \in users : u.id >= i})
    ELSE next_user_id

\* users.email is unique: a row other than user_id holds the address.  The
\* mutant is a column that is not unique
EmailNeverTaken(table, email, user_id) == FALSE
EmailTaken(table, email, user_id) ==
    \E u \in table : u.id # user_id /\ u.email = email

\* the response of a route, with history of the call: whether the caller is
\* an admin, the caller's id, whether the path identity names the caller,
\* whether the caller was subscribed to the camera of the resource when the
\* call began, whether the resource was found, the page asked for, the ids
\* of the rows returned, whether some id sent names no row, whether another
\* row holds the unique value sent, and whether any table changed
Answer(op, current_user, status) ==
    [op |-> op, status |-> status, admin |-> current_user.is_admin,
     caller |-> current_user.id, own |-> FALSE, subscribed |-> FALSE,
     found |-> FALSE, page_index |-> 0, page_size |-> 0, result |-> {},
     missing |-> FALSE, taken |-> FALSE, changed |-> FALSE]

Tables == <<users, cameras, camera_subscriptions, videos>>

\* the end of a request: the tables as the handler leaves them
Handled(response, users2, cameras2, subscriptions2, videos2) ==
    /\ users' = users2
    /\ cameras' = cameras2
    /\ camera_subscriptions' = subscriptions2
    /\ videos' = videos2
    /\ last' = [response EXCEPT !.changed =
                    <<users2, cameras2, subscriptions2, videos2>> # Tables]
    /\ UNCHANGED <<refresh_tokens, next_user_id, next_token_id, now, signed,
                   revoked, rotated, rotated_again, req, hashing, db_type,
                   orphaned>>

\* a request that writes nothing
Refused(response) ==
    Handled(response, users, cameras, camera_subscriptions, videos)

\* the user the path identity names is the caller
Own(id_or_email, current_user) == get_user(id_or_email) = current_user

-----------------------------------------------------------------------------
(* app/api/routes/users.py *)

GetUser(current_user, id_or_email) ==
    LET db_user == get_user(id_or_email)
        answer(status) ==
            [Answer("get_user", current_user, status) EXCEPT
                !.own = Own(id_or_email, current_user),
                !.found = db_user # NoUser]
    IN  IF db_user = NoUser
        THEN Refused(answer(404))
        ELSE IF ~current_user.is_admin /\ current_user.id # db_user.id
        THEN Refused(answer(403))
        ELSE Refused(answer(200))

\* POST /users/: the route depends on get_current_admin_user and refuses an
\* address that get_user_by_email finds; services/user.py create_user then
\* counts the rows and adds one
CreateUser(current_user, email) ==
    LET answer(status) ==
            [Answer("create_user", current_user, status) EXCEPT
                !.taken = \E u \in users : u.email = email]
        db_user == create_user(users, NextUserId, email,
                               RegisteredPassword(email), RegisteredSalt)
    IN  IF ~current_user.is_admin
        THEN Refused(answer(403))
        ELSE IF get_user_by_email(email) # NoUser
        THEN Refused(answer(400))
        ELSE /\ NextUserId <= MaxUserId
             /\ Handled(answer(200), users \cup {db_user}, cameras,
                        camera_subscriptions, videos)

\* services/user.py update_user sets the fields sent and commits; the engine
\* refuses an email another row holds
UpdateUser(current_user, id_or_email, email) ==
    LET db_user == get_user(id_or_email)
        answer(status) ==
            [Answer("update_user", current_user, status) EXCEPT
                !.own = Own(id_or_email, current_user),
                !.found = db_user # NoUser,
                !.taken = \E u \in users : u # db_user /\ u.email = email]
        updated == [db_user EXCEPT !.email = email]
    IN  IF db_user = NoUser
        THEN Refused(answer(404))
        ELSE IF ~current_user.is_admin /\ current_user.id # db_user.id
        THEN Refused(answer(403))
        ELSE IF EmailTaken(users, email, db_user.id)
        THEN Refused(answer(500))
        ELSE Handled(answer(200), (users \ {db_user}) \cup {updated},
                     cameras, camera_subscriptions, videos)

\* the route depends on get_current_admin_user; its call of
\* user_service.delete_user names a parameter the function does not have,
\* which raises TypeError
DeleteUser(current_user, id_or_email) ==
    LET db_user == get_user(id_or_email)
        answer(status) ==
            [Answer("delete_user", current_user, status) EXCEPT
                !.own = Own(id_or_email, current_user),
                !.found = db_user # NoUser]
    IN  IF ~current_user.is_admin
        THEN Refused(answer(403))
        ELSE IF db_user = NoUser
        THEN Refused(answer(404))
        ELSE Refused(answer(500))

\* POST /users/{id_or_email}/subscriptions/{camera_id} and the bulk route
\* POST /users/{id_or_email}/subscriptions/.  The bulk route looks the ids
\* up and raises 404 for a camera found whose id is not among those sent
\* (lines 176-179), which no camera found is
Subscribe(op, current_user, id_or_email, camera_ids) ==
    LET db_user == get_user(id_or_email)
        answer(status) ==
            [Answer(op, current_user, status) EXCEPT
                !.own = Own(id_or_email, current_user),
                !.found = db_user # NoUser,
                !.missing = \E id \in Range(camera_ids) : id \notin CameraIds]
        out == create_camera_subscriptions_by_user(camera_subscriptions,
                                                   db_user.id, camera_ids)
    IN  IF /\ ~current_user.is_admin
           /\ ~user_matches_id_or_email(id_or_email, current_user)
        THEN Refused(answer(403))
        ELSE IF db_user = NoUser
        THEN Refused(answer(404))
        ELSE IF op = "create_camera_subscription" /\ Len(out.result) = 0
        THEN Refused(answer(404))
        ELSE Handled(answer(200), users, cameras, out.table, videos)

\* DELETE /users/{id_or_email}/subscriptions/{camera_id} and the bulk route
Unsubscribe(op, current_user, id_or_email, camera_ids) ==
    LET db_user == get_user(id_or_email)
        answer(status) ==
            [Answer(op, current_user, status) EXCEPT
                !.own = Own(id_or_email, current_user),
                !.found = db_user # NoUser]
        out == delete_camera_subscriptions_by_user(camera_subscriptions,
                                                   db_user.id, camera_ids)
    IN  IF /\ ~current_user.is_admin
           /\ ~user_matches_id_or_email(id_or_email, current_user)
        THEN Refused(answer(403))
        ELSE IF db_user = NoUser
        THEN Refused(answer(404))
        ELSE IF out.err # "none"
        THEN Refused(answer(500))
        ELSE IF op = "unsubscribe_from_camera" /\ out.result = {}
        THEN Refused(answer(404))
        ELSE Handled(answer(200), users, cameras, out.table, videos)

-----------------------------------------------------------------------------
(* app/api/routes/cameras.py *)

\* GET /cameras/: a page of all the cameras, then the subscription filter
ListCameras(current_user, page_index, page_size) ==
    LET page == get_cameras(<<>>, page_index * page_size, page_size)
        subscribed_camera_ids ==
            {c.id : c \in UserCameras(camera_subscriptions, current_user.id)}
        shown == IF current_user.is_admin
                 THEN {c.id : c \in Range(page)}
                 ELSE {c.id : c \in Range(page)} \cap subscribed_camera_ids
    IN  Refused([Answer("get_cameras", current_user, 200) EXCEPT
                    !.page_index = page_index,
                    !.page_size = page_size,
                    !.result = shown])

\* POST /cameras/: the row gets the next primary key
CreateCamera(current_user, host_address) ==
    LET id == 1 + Cardinality({i \in 1..MaxCameraId :
                                   \E c \in cameras : c.id >= i})
        db_camera == [Camera(id) EXCEPT !.host_address = host_address]
        answer(status) ==
            [Answer("create_camera", current_user, status) EXCEPT
                !.taken = \E c \in cameras : c.host_address = host_address]
    IN  /\ id <= MaxCameraId
        /\ IF get_cameras_by_host_address(host_address) # {}
           THEN Refused(answer(400))
           ELSE Handled(answer(200), users, cameras \cup {db_camera},
                        camera_subscriptions, videos)

\* GET /cameras/{id} and GET /cameras/{id}/videos
ReadCamera(op, current_user, id) ==
    LET db_camera == get_camera(id)
        answer(status) ==
            [Answer(op, current_user, status) EXCEPT
                !.found = db_camera # NoCamera,
                !.subscribed =
                    Subscription(current_user.id, id) \in camera_subscriptions,
                !.result = IF status = 200 /\ op = "get_videos"
                           THEN {v.id : v \in {x \in videos : x.camera_id = id}}
                           ELSE {}]
    IN  IF db_camera = NoCamera
        THEN Refused(answer(404))
        ELSE IF /\ ~current_user.is_admin
                /\ ~InCameras(camera_subscriptions, db_camera, current_user)
        THEN Refused(answer(403))
        ELSE Refused(answer(200))

\* PUT /cameras/{id}: update_camera leaves the row as it is when the host
\* address sent is in use
UpdateCamera(current_user, id, host_address) ==
    LET db_camera == get_camera(id)
        cameras_by_ip == get_cameras_by_host_address(host_address)
        updated == [db_camera EXCEPT !.host_address = host_address]
        answer(status) ==
            [Answer("update_camera", current_user, status) EXCEPT
                !.found = db_camera # NoCamera,
                !.taken = \E c \in cameras :
                              c.id # id /\ c.host_address = host_address]
    IN  IF ~current_user.is_admin
        THEN Refused(answer(403))
        ELSE IF \E c \in cameras_by_ip : c.id # id
        THEN Refused(answer(409))
        ELSE IF db_camera = NoCamera
        THEN Refused(answer(404))
        ELSE IF cameras_by_ip # {}
        THEN Refused(answer(200))
        ELSE Handled(answer(200), users, (cameras \ {db_camera}) \cup {updated},
                     camera_subscriptions, videos)

\* DELETE /cameras/{id}: the camera row goes with its camera_subscriptions
\* rows.  The videos rows of the camera are not deleted: when the engine or
\* the mapping of Camera.videos refuses to leave them behind the call raises,
\* otherwise they stay, naming a camera that is gone
DeleteCamera(current_user, id, refuses) ==
    LET db_camera == get_camera(id)
        answer(status) ==
            [Answer("delete_camera", current_user, status) EXCEPT
                !.found = db_camera # NoCamera]
        kept == {r \in camera_subscriptions : r.camera_id # id}
    IN  IF ~current_user.is_admin
        THEN Refused(answer(403))
        ELSE IF db_camera = NoCamera
        THEN Refused(answer(404))
        ELSE IF /\ \E v \in videos : v.camera_id = id
                /\ ForeignKeysEnforced \/ refuses
        THEN Refused(answer(500))
        ELSE Handled(answer(200), users, cameras \ {db_camera}, kept, videos)

-----------------------------------------------------------------------------
(* app/api/routes/videos.py: GET, PUT and DELETE /videos/{id} *)

VideoRoute(op, current_user, id, file_name) ==
    LET db_video == get_video_entry(id)
        db_camera == get_camera(db_video.camera_id)
        answer(status) ==
            [Answer(op, current_user, status) EXCEPT
                !.found = db_video # NoVideo,
                !.subscribed =
                    db_video.camera_id \in
                        {c.id : c \in UserCameras(camera_subscriptions,
                                                  current_user.id)}]
        updated == [db_video EXCEPT !.file_name = file_name]
    IN  IF db_video = NoVideo
        THEN Refused(answer(404))
        ELSE IF /\ db_camera # NoCamera
                /\ ~current_user.is_admin
                /\ ~InCameras(camera_subscriptions, db_camera, current_user)
        THEN Refused(answer(403))
        ELSE IF op = "update_video"
        THEN Handled(answer(200), users, cameras, camera_subscriptions,
                     (videos \ {db_video}) \cup {updated})
        ELSE IF op = "delete_video"
        THEN Handled(answer(200), users, cameras, camera_subscriptions,
                     videos \ {db_video})
        ELSE Refused(answer(200))

-----------------------------------------------------------------------------
(* The routes behind the access policy, over two users, two cameras and    *)
(* one video                                                               *)

AccessInit ==
    /\ users = {Alice, Bob}
    /\ refresh_tokens = {}
    /\ next_user_id = 3
    /\ next_token_id = 1
    /\ now = 0
    /\ signed = {}
    /\ revoked = {}
    /\ rotated = {}
    /\ rotated_again = {}
    /\ req = [w \in Workers |-> IdleRequest]
    /\ last = NoResponse
    /\ hashing = HashingIdle
    /\ cameras = {Camera(1), Camera(2)}
    /\ camera_subscriptions = {}
    /\ videos = {Video(1, <<"a", "b", ".", "m", "p", "4">>, 1)}
    /\ db_type = "sqlite"
    /\ orphaned = {}

\* path identities: the id or the address of a user, and the id of nobody
PathIdentities ==
    {IDorEmail("int", 1), IDorEmail("int", 2), IDorEmail("int", NobodyId),
     IDorEmail("str", "bob@example.com")}

\* the addresses sent to POST /users/
CreatedEmails == {"bob@example.com", "carol@example.com"}

PathCameraIds == {1, 2}
SentCameraIdLists == {<<1, 2>>, <<1, MaxCameraId>>}
PageIndexes == {0, 1}
PageSizes == {1, DefaultLimit}

\* the routes of the users router
AccessNext ==
    \/ \E current_user \in users, id_or_email \in PathIdentities :
           GetUser(current_user, id_or_email)
    \/ \E current_user \in users, email \in CreatedEmails :
           CreateUser(current_user, email)
    \/ \E current_user \in users, id_or_email \in PathIdentities :
           UpdateUser(current_user, id_or_email, "carol@example.com")
    \/ \E current_user \in users, id_or_email \in PathIdentities :
           DeleteUser(current_user, id_or_email)
    \/ \E current_user \in users, id_or_email \in PathIdentities,
          camera_id \in PathCameraIds :
           Subscribe("create_camera_subscription", current_user, id_or_email,
                     <<camera_id>>)
    \/ \E current_user \in users, id_or_email \in PathIdentities,
          camera_ids \in SentCameraIdLists :
           Subscribe("create_camera_subscriptions", current_user, id_or_email,
                     camera_ids)
    \/ \E current_user \in users, id_or_email \in PathIdentities,
          camera_id \in PathCameraIds :
           Unsubscribe("unsubscribe_from_camera", current_user, id_or_email,
                       <<camera_id>>)
    \/ \E current_user \in users, id_or_email \in PathIdentities,
          camera_ids \in SentCameraIdLists :
           Unsubscribe("unsubscribe_from_cameras", current_user, id_or_email,
                       camera_ids)

AccessSpec == AccessInit /\ [][AccessNext]_vars

\* the routes of the cameras and videos routers, while bob subscribes to
\* cameras and unsubscribes from them
CatalogueNext ==
    \/ \E camera_id \in PathCameraIds :
           Subscribe("create_camera_subscription", Bob, IDorEmail("int", 2),
                     <<camera_id>>)
    \/ \E camera_id \in PathCameraIds :
           Unsubscribe("unsubscribe_from_camera", Bob, IDorEmail("int", 2),
                       <<camera_id>>)
    \/ \E current_user \in users, page_index \in PageIndexes,
          page_size \in PageSizes :
           ListCameras(current_user, page_index, page_size)
    \/ \E current_user \in users : CreateCamera(current_user, MaxCameraId)
    \/ \E current_user \in users, id \in PathCameraIds :
           ReadCamera("get_camera", current_user, id)
    \/ \E current_user \in users, id \in PathCameraIds :
           ReadCamera("get_videos", current_user, id)
    \/ \E current_user \in users, id \in PathCameraIds :
           UpdateCamera(current_user, id, MaxCameraId)
    \/ \E current_user \in users, id \in PathCameraIds, refuses \in BOOLEAN :
           DeleteCamera(current_user, id, refuses)
    \/ \E current_user \in users : VideoRoute("get_video", current_user, 1, "")
    \/ \E current_user \in users :
           VideoRoute("update_video", current_user, 1,
                      <<"b", ".", "m", "p", "4">>)
    \/ \E current_user \in users :
           VideoRoute("delete_video", current_user, 1, "")

CatalogueSpec == AccessInit /\ [][CatalogueNext]_vars

-----------------------------------------------------------------------------
(* Claims on the access policy *)

UserOps == {"get_user", "update_user", "delete_user"}
SubscriptionOps ==
    {"create_camera_subscription", "create_camera_subscriptions",
     "unsubscribe_from_camera", "unsubscribe_from_cameras"}
CameraReadOps == {"get_camera", "get_videos"}
CameraWriteOps == {"create_camera", "update_camera", "delete_camera"}
VideoOps == {"get_video", "update_video", "delete_video"}

\* C15: a caller who is not an admin may read, update and delete the users
\* row that is their own, and is refused with 403 on the row of anyone else
OwnUserRecordOnly ==
    (last.op \in UserOps /\ ~last.admin /\ last.found)
        => IF last.own THEN last.status # 403 ELSE last.status = 403

\* C16: a caller who is not an admin gets a camera, or the list of its
\* videos, exactly when a camera_subscriptions row links the caller to the
\* camera as the request is served, and is refused with 403 otherwise
CameraReadIffSubscribed ==
    (last.op \in CameraReadOps /\ ~last.admin /\ last.found)
        => /\ last.status = 200 <=> last.subscribed
           /\ ~last.subscribed => last.status = 403

\* C16, witness: bob, subscribed to a camera, read it
SubscriberReadCamera ==
    /\ last.op \in CameraReadOps
    /\ ~last.admin
    /\ last.subscribed
    /\ last.status = 200

\* C17: a caller who is not an admin reads, updates or deletes a video only
\* when the camera_id of the video is the id of a camera the caller is
\* subscribed to
VideoOnlyIfSubscribed ==
    (last.op \in VideoOps /\ ~last.admin /\ last.status = 200)
        => last.subscribed

\* C18: GET /cameras/ answers a caller who is not an admin, asking for page 0
\* of a size no smaller than the number of cameras the caller is subscribed
\* to, with exactly the cameras the caller is subscribed to
ListShowsSubscribedCameras ==
    LET subscribed_camera_ids ==
            {c.id : c \in UserCameras(camera_subscriptions, last.caller)}
    IN  (/\ last.op = "get_cameras"
         /\ ~last.admin
         /\ last.page_index = 0
         /\ last.page_size >= Cardinality(subscribed_camera_ids))
            => last.result = subscribed_camera_ids

\* C19: a caller who is not an admin is refused with 403 by the routes that
\* create, update and delete a camera, and no table changes
CameraWritesAdminOnly ==
    (last.op \in CameraWriteOps /\ ~last.admin)
        => last.status = 403 /\ ~last.changed

\* C20: the routes that create and delete subscriptions refuse a caller who
\* is not an admin and whose path identity is of someone else with 403 and
\* change no row; they do not refuse an admin, whoever the path names, nor a
\* caller the path names
SubscriptionsForSelfOnly ==
    last.op \in SubscriptionOps
        => /\ (~last.admin /\ ~last.own)
               => (last.status = 403 /\ ~last.changed)
           /\ (last.admin \/ last.own) => last.status # 403

\* C20, witness: bob asked for a subscription of alice and was refused
SubscriptionForOtherRefused ==
    /\ last.op \in SubscriptionOps
    /\ ~last.admin
    /\ ~last.own
    /\ last.found
    /\ last.status = 403

-----------------------------------------------------------------------------
(* Uniqueness of users.email and cameras.host_address, and the bulk        *)
(* subscription route                                                      *)

\* C22: no two rows of users hold one email, whatever POST /users/ and
\* PUT /users/{id_or_email} were asked; POST /users/ with an address that a
\* row holds is refused with 400 and changes no table
EmailsUnique ==
    /\ \A u, v \in users : u.email = v.email => u = v
    /\ (last.op = "create_user" /\ last.admin /\ last.taken)
           => (last.status = 400 /\ ~last.changed)

\* C22, witness: an admin asked for a user with the address that a row got
\* by an email change, and was refused
DuplicateEmailRefused ==
    /\ last.op = "create_user"
    /\ last.admin
    /\ last.taken
    /\ last.status = 400
    /\ \E u \in users : u.id < MaxUserId /\ u.email = "carol@example.com"

BulkSubscribeAllOrNothing ==
    (/\ last.op = "create_camera_subscriptions"
     /\ last.admin \/ last.own
     /\ last.found
     /\ last.missing)
        => (last.status = 404 /\ ~last.changed)

-----------------------------------------------------------------------------
(* The user lifecycle: app/services/user.py create_user and delete_user,   *)
(* and app/api/auth.py get_current_user for the tokens signed before       *)

\* a call of create_user: the address sent and the rows its count query saw
CreatingIdle == [pc |-> "idle", email |-> "", seen |-> {}]

NoneCreating == \A w \in Workers : req[w].pc = "idle"

\* the outcome of a call, with history of it: the user row it made, removed
\* or let in, the refresh_tokens rows that user held when the call began,
\* and whether the token presented was signed for a subject whose row was
\* deleted since
Outcome(op, status, user) ==
    [op |-> op, status |-> status, user |-> user,
     sessions |-> Cardinality(RowsOf(refresh_tokens, user.id)),
     orphan |-> FALSE]

\* create_user line 48: is_first_user = db.query(User).count() == 0
CreateUserCount(w, email) ==
    /\ req[w].pc = "idle"
    /\ NextUserId <= MaxUserId
    /\ req' = [req EXCEPT ![w] =
                  [pc |-> "counted", email |-> email, seen |-> users]]
    /\ UNCHANGED <<catalogue, orphaned, users, refresh_tokens, next_user_id,
                   next_token_id, now, signed, revoked, rotated,
                   rotated_again, last, hashing>>

\* create_user lines 49-57: the row is added and committed; the engine
\* refuses an address that a row holds.  The sequence of Postgres moves on
\* either way
CreateUserInsert(w) ==
    LET db_user == create_user(req[w].seen, NextUserId, req[w].email,
                               RegisteredPassword(req[w].email),
                               RegisteredSalt)
    IN  /\ req[w].pc = "counted"
        /\ NextUserId <= MaxUserId
        /\ IF EmailTaken(users, req[w].email, 0)
           THEN /\ UNCHANGED users
                /\ last' = Outcome("create_user", "raised", NoUser)
           ELSE /\ users' = users \cup {db_user}
                /\ last' = Outcome("create_user", "returned", db_user)
        /\ next_user_id' = IF db_type = "postgres"
                           THEN next_user_id + 1
                           ELSE next_user_id
        /\ req' = [req EXCEPT ![w] = CreatingIdle]
        /\ UNCHANGED <<catalogue, orphaned, refresh_tokens, next_token_id,
                       now, signed, revoked, rotated, rotated_again, hashing>>

\* delete_user lines 84-92: db.delete(db_user) and commit.  The rows of
\* camera_subscriptions, the secondary table of User.cameras, go with the
\* user.  User.refresh_tokens has no delete cascade, so the rows of
\* refresh_tokens are detached from the user, and refresh_tokens.user_id
\* (db_models.py line 79) does not take NULL: the commit raises
\* IntegrityError and nothing is deleted
delete_user(user_id) ==
    LET db_user == get_user_by_id(user_id)
    IN  IF db_user = NoUser
        THEN [err |-> "none", users |-> users,
              camera_subscriptions |-> camera_subscriptions]
        ELSE IF RowsOf(refresh_tokens, user_id) # {}
        THEN [err |-> "IntegrityError", users |-> users,
              camera_subscriptions |-> camera_subscriptions]
        ELSE [err |-> "none", users |-> users \ {db_user},
              camera_subscriptions |->
                  {r \in camera_subscriptions : r.user_id # user_id}]

ServiceDeleteUser(user_id) ==
    LET db_user == get_user_by_id(user_id)
        out == delete_user(user_id)
    IN  /\ users' = out.users
        /\ camera_subscriptions' = out.camera_subscriptions
        /\ orphaned' = IF out.users # users
                       THEN orphaned \cup {t \in signed : t[1] = user_id}
                       ELSE orphaned
        /\ last' = Outcome("delete_user",
                           IF out.err = "none" THEN "returned" ELSE "raised",
                           db_user)
        /\ UNCHANGED <<cameras, videos, db_type, refresh_tokens, next_user_id,
                       next_token_id, now, signed, revoked, rotated,
                       rotated_again, req, hashing>>

\* a request with a bearer token to a route that depends on get_current_user
Authenticate(bearer) ==
    LET current_user == get_current_user(bearer, now)
    IN  /\ last' = [Outcome("get_current_user",
                            IF current_user.err = "none" THEN 200 ELSE 401,
                            current_user.val)
                       EXCEPT !.orphan = bearer \in orphaned]
        /\ UNCHANGED <<catalogue, orphaned, users, refresh_tokens,
                       next_user_id, next_token_id, now, signed, revoked,
                       rotated, rotated_again, req, hashing>>

\* two registered users, bob subscribed to the one camera, on either engine
LifecycleInit ==
    /\ users = {Alice, Bob}
    /\ refresh_tokens = {}
    /\ next_user_id = 3
    /\ next_token_id = 1
    /\ now = 0
    /\ signed = {}
    /\ revoked = {}
    /\ rotated = {}
    /\ rotated_again = {}
    /\ req = [w \in Workers |-> CreatingIdle]
    /\ last = NoResponse
    /\ hashing = HashingIdle
    /\ cameras = {Camera(1)}
    /\ camera_subscriptions = {Subscription(2, 1)}
    /\ videos = {}
    /\ db_type \in {"sqlite", "postgres"}
    /\ orphaned = {}

\* the calls one after the other: no call begins while a create_user is
\* between its count and its insert.  Bob does not register a second time
LifecycleNext ==
    \/ \E email \in Emails :
           NoneCreating /\ Login(email, RegisteredPassword(email))
    \/ \E bearer \in Bearers(now), token \in Refreshable :
           NoneCreating /\ Logout(bearer, token)
    \/ \E email \in Emails \ {"bob@example.com"} :
           NoneCreating /\ CreateUserCount(1, email)
    \/ \E user_id \in 1..MaxUserId :
           NoneCreating /\ ServiceDeleteUser(user_id)
    \/ \E bearer \in Presentable : NoneCreating /\ Authenticate(bearer)
    \/ CreateUserInsert(1)

LifecycleSpec == LifecycleInit /\ [][LifecycleNext]_vars

\* an empty users table, and the create_user calls of the workers taking
\* their steps in any order
BootstrapInit ==
    /\ users = {}
    /\ refresh_tokens = {}
    /\ next_user_id = 1
    /\ next_token_id = 1
    /\ now = 0
    /\ signed = {}
    /\ revoked = {}
    /\ rotated = {}
    /\ rotated_again = {}
    /\ req = [w \in Workers |-> CreatingIdle]
    /\ last = NoResponse
    /\ hashing = HashingIdle
    /\ cameras = {}
    /\ camera_subscriptions = {}
    /\ videos = {}
    /\ db_type \in {"sqlite", "postgres"}
    /\ orphaned = {}

BootstrapNext ==
    \/ \E w \in Workers, email \in Emails : CreateUserCount(w, email)
    \/ \E w \in Workers : CreateUserInsert(w)

BootstrapSpec == BootstrapInit /\ [][BootstrapNext]_vars

\* C21: a user created after another user was created is not an admin: in
\* every sequence of create_user and delete_user calls that begins after
\* alice and bob were created, create_user returns a row with is_admin false
LaterUsersNotAdmin ==
    (last.op = "create_user" /\ last.status = "returned")
        => ~last.user.is_admin

\* C24: delete_user of a user that exists returns, and then no row of
\* refresh_tokens and no row of camera_subscriptions names the user
DeleteUserCascades ==
    (last.op = "delete_user" /\ last.user # NoUser)
        => /\ last.status = "returned"
           /\ RowsOf(refresh_tokens, last.user.id) = {}
           /\ \A r \in camera_subscriptions : r.user_id # last.user.id

\* C28: get_current_user answers 401 to a token whose subject's row was
\* deleted after the token was signed
DeletedUserTokensRejected ==
    (last.op = "get_current_user" /\ last.orphan) => last.status = 401

\* C30: at most one row of users is an admin, the users table having been
\* empty and no row having been made an admin but by create_user
AtMostOneBootstrapAdmin ==
    Cardinality({u \in users : u.is_admin}) <= 1

-----------------------------------------------------------------------------
(* app/api/routes/videos.py upload_video                                   *)

MaxVideoId == 3

\* the file names sent: the name of the video stored, a part of it, the
\* name in capitals, and a name that shares nothing with it
FileNames ==
    {<<"a", "b", ".", "m", "p", "4">>, <<"b", ".", "m", "p", "4">>,
     <<"A", "B", ".", "m", "p", "4">>, <<"c", ".", "m", "p", "4">>}

\* a character without regard to case, for the characters of FileNames
Lower(c) == IF c = "A" THEN "a" ELSE IF c = "B" THEN "b" ELSE c

\* Video.file_name.ilike(f"%{file_name}%"), for a file_name without % and _:
\* value holds pattern somewhere, without regard to case
ILike(value, pattern) ==
    \E k \in 0..(Len(value) - Len(pattern)) :
        \A i \in 1..Len(pattern) : Lower(value[k + i]) = Lower(pattern[i])

\* services/video.py get_video_entries: the rows the filters let through, of
\* which upload_video asks for the first and tests whether there is any
get_video_entries(file_name, camera_ids) ==
    {v \in videos :
        /\ file_name = <<>> \/ ILike(v.file_name, file_name)
        /\ camera_ids = <<>> \/ v.camera_id \in Range(camera_ids)}

\* POST /videos/: the route depends on get_current_admin_user;
\* create_video_entry gives None for a camera that does not exist
UploadVideo(current_user, file_name, camera_id, is_video) ==
    LET id == 1 + Cardinality({i \in 1..MaxVideoId :
                                   \E v \in videos : v.id >= i})
        answer(status) ==
            [Answer("upload_video", current_user, status) EXCEPT
                !.found = get_camera(camera_id) # NoCamera,
                !.taken = \E v \in videos : /\ v.file_name = file_name
                                            /\ v.camera_id = camera_id]
    IN  IF ~current_user.is_admin
        THEN Refused(answer(403))
        ELSE IF get_video_entries(file_name, <<camera_id>>) # {}
        THEN Refused(answer(400))
        ELSE IF ~is_video
        THEN Refused(answer(415))
        ELSE IF get_camera(camera_id) = NoCamera
        THEN Refused(answer(404))
        ELSE /\ id <= MaxVideoId
             /\ Handled(answer(200), users, cameras, camera_subscriptions,
                        videos \cup {Video(id, file_name, camera_id)})

UploadNext ==
    \E current_user \in users, file_name \in FileNames,
       camera_id \in 1..MaxCameraId, is_video \in BOOLEAN :
        UploadVideo(current_user, file_name, camera_id, is_video)

UploadSpec == AccessInit /\ [][UploadNext]_vars

\* C26: upload_video, called by an admin, answers 400 exactly when a row of
\* videos has the file name and the camera sent; an upload of a video file
\* with a name that no row of the camera has, for a camera that exists, adds
\* a row
UploadConflictIffSameVideo ==
    (last.op = "upload_video" /\ last.admin)
        => /\ last.status = 400 <=> last.taken
           /\ (~last.taken /\ last.found /\ last.status # 415)
                  => (last.status = 200 /\ last.changed)

-----------------------------------------------------------------------------
(* app/services/camera_subscription.py delete_camera_subscriptions_by_user *)
(* and delete_camera_subscriptions_by_camera, called one after the other   *)

DeleteCameraSubscriptionsByUser(user_id, camera_ids) ==
    Reconciled("delete_camera_subscriptions_by_user", user_id, camera_ids,
               delete_camera_subscriptions_by_user(camera_subscriptions,
                                                   user_id, camera_ids))

DeleteCameraSubscriptionsByCamera(camera_id, user_ids) ==
    Reconciled("delete_camera_subscriptions_by_camera", camera_id, user_ids,
               delete_camera_subscriptions_by_camera(camera_subscriptions,
                                                     camera_id, user_ids))

\* the lists sent: ids of rows, and with them an id of no row
UnlinkedCameraIdLists == {<<1>>, <<1, 2>>, <<2, MaxCameraId>>}
UnlinkedUserIdLists == {<<1>>, <<1, 2>>, <<2, NobodyId>>}

UnlinkNext ==
    \/ \E user_id \in UserIds, camera_ids \in UnlinkedCameraIdLists :
           CreateCameraSubscriptionsByUser(user_id, camera_ids)
    \/ \E user_id \in UserIds \cup {NobodyId},
          camera_ids \in UnlinkedCameraIdLists :
           DeleteCameraSubscriptionsByUser(user_id, camera_ids)
    \/ \E camera_id \in 1..MaxCameraId, user_ids \in UnlinkedUserIdLists :
           DeleteCameraSubscriptionsByCamera(camera_id, user_ids)

UnlinkSpec == AccessInit /\ [][UnlinkNext]_vars

\* C27: delete_camera_subscriptions_by_camera(c, U) for a camera that
\* exists, when it returns, has removed exactly the rows (u, c) of the users
\* of U that exist, and reports exactly those rows, each with camera_id c
\* and the user_id of a user unsubscribed
CameraSideMirrorsUserSide ==
    (/\ last.op = "delete_camera_subscriptions_by_camera"
     /\ last.status = "returned"
     /\ last.key \in CameraIds)
        => LET named == {Subscription(u, last.key) :
                             u \in Range(last.ids) \cap UserIds}
           IN  /\ last.before \ camera_subscriptions = named
               /\ last.result = named

=============================================================================
